---- MODULE Spec2Model ----
(***************************************************************************)
(* Model of src/main.py: the Picamera2 viewer / frame-capture program.     *)
(* The program is one sequential thread; every action below is one step    *)
(* of main() between two calls to an external collaborator (filesystem,    *)
(* camera, display).  The outcomes of the external calls are the inputs.   *)
(***************************************************************************)
EXTENDS Integers, Sequences, FiniteSets, TLC

VARIABLES pc,          \* position of the thread in main() / __main__
          dirExists,   \* does <program_dir>/frames exist
          picam2,      \* camera handle: "unbound" | "open" | "started" | "closed"
          config,      \* configuration in force: "none" | "full" | "default"
          frame,       \* value of `frame` (or `test_frame`)
          frame_bgr,   \* value of `frame_bgr`
          window,      \* what the window "Raspberry Pi Camera" shows (NoFrame: no window)
          key,         \* value of `key`
          frame_count, \* value of `frame_count` (-1: not yet bound)
          files,       \* files written by this run: name -> image written
          log,         \* the sequence of external calls made so far
          exitStatus,  \* process exit status (-1 while running)
          iter         \* number of loop iterations started

vars == <<pc, dirExists, picam2, config, frame, frame_bgr, window, key, frame_count,
          files, log, exitStatus, iter>>

\* ---------------------------------------------------------------- bounds
MaxIter == 4
MaxSecond == 1

\* ------------------------------------------------------------- constants
KeyQuit == 113
KeySave == 32
KeyNone == 255

\* the values cv2.waitKey(1) & 0xFF takes: quit, save, no key, some other key
Keys == {KeyQuit, KeySave, KeyNone, 97}
Seconds == 0..MaxSecond

NoFrame == [w |-> 0, h |-> 0, order |-> "none"]
FullFrame == [w |-> 1456, h |-> 1088, order |-> "RGB"]
DefaultFrame == [w |-> 640, h |-> 480, order |-> "RGB"]

\* ------------------------------------------------------- pure functions
DigitChar(d) == <<"0", "1", "2", "3", "4", "5", "6", "7", "8", "9">>[d + 1]

RECURSIVE Str(_)
Str(n) == IF n < 10 THEN <<DigitChar(n)>>
          ELSE Str(n \div 10) \o <<DigitChar(n % 10)>>

\* datetime.now().strftime("%Y%m%d_%H%M%S"): fixed width; the run stays
\* inside one minute, so only the two digits of the seconds vary.
Strftime(t) == <<"YYYYMMDD_HHMM", DigitChar((t \div 10) % 6), DigitChar(t % 10)>>

Filename(t, n) == <<"frame_">> \o Strftime(t) \o <<"_">> \o Str(n) \o <<".jpg">>

\* cv2.cvtColor(frame, cv2.COLOR_RGB2BGR): swaps the channel order, keeps the size
CvtColor(f) == [f EXCEPT !.order = IF f.order = "RGB" THEN "BGR" ELSE "RGB"]

Max(a, b) == IF a >= b THEN a ELSE b

Event(op, res, n, name) == [op |-> op, res |-> res, n |-> n, name |-> name]
Call(op, res) == Event(op, res, 0, <<>>)

WriteFile(fs, name, img) ==
    [x \in (DOMAIN fs) \cup {name} |-> IF x = name THEN img ELSE fs[x]]

\* ------------------------------------------------------------------ Init
Init ==
    /\ pc = "makedirs"
    /\ dirExists \in BOOLEAN
    /\ picam2 = "unbound"
    /\ config = "none"
    /\ frame = NoFrame
    /\ frame_bgr = NoFrame
    /\ window = NoFrame
    /\ key = KeyNone
    /\ frame_count = -1
    /\ files = <<>>
    /\ log = <<>>
    /\ exitStatus = -1
    /\ iter = 0

\* --------------------------------------------------------------- actions
\* mutant: the directory is not created
MakedirsOmitted ==
    /\ pc = "makedirs"
    /\ dirExists' = dirExists
    /\ log' = Append(log, Event("makedirs", "ok", IF dirExists THEN 1 ELSE 0, <<>>))
    /\ pc' = "import"
    /\ UNCHANGED <<picam2, config, frame, frame_bgr, window, key, frame_count,
                   files, exitStatus, iter>>

\* os.makedirs(frames_dir, exist_ok=True); an OSError propagates to __main__
Makedirs ==
    /\ pc = "makedirs"
    /\ \/ /\ dirExists' = TRUE
          /\ log' = Append(log, Event("makedirs", "ok", IF dirExists THEN 1 ELSE 0, <<>>))
          /\ pc' = "import"
       \/ /\ ~dirExists
          /\ dirExists' = FALSE
          /\ log' = Append(log, Call("makedirs", "raise"))
          /\ pc' = "top_except"
    /\ UNCHANGED <<picam2, config, frame, frame_bgr, window, key, frame_count, files,
                   exitStatus, iter>>

\* from picamera2 import Picamera2; both except clauses return
ImportPicamera2 ==
    /\ pc = "import"
    /\ \/ /\ log' = Append(log, Call("import", "ok"))
          /\ pc' = "Picamera2"
       \/ /\ log' = Append(log, Call("import", "raise"))
          /\ pc' = "exit"
    /\ UNCHANGED <<dirExists, picam2, config, frame, frame_bgr, window, key,
                   frame_count, files, exitStatus, iter>>

\* picam2 = Picamera2()
CreateCamera ==
    /\ pc = "Picamera2"
    /\ \/ /\ picam2' = "open"
          /\ log' = Append(log, Call("Picamera2", "ok"))
          /\ pc' = "global_camera_info"
       \/ /\ picam2' = picam2
          /\ log' = Append(log, Call("Picamera2", "raise"))
          /\ pc' = "except"
    /\ UNCHANGED <<dirExists, config, frame, frame_bgr, window, key, frame_count,
                   files, exitStatus, iter>>

\* mutant: an empty camera list does not return
ListCamerasIgnoreEmpty ==
    /\ pc = "global_camera_info"
    /\ \/ /\ log' = Append(log, Call("global_camera_info", "ok"))
          /\ pc' = "configure"
       \/ /\ log' = Append(log, Call("global_camera_info", "none"))
          /\ pc' = "configure"
    /\ UNCHANGED <<dirExists, picam2, config, frame, frame_bgr, window, key,
                   frame_count, files, exitStatus, iter>>

\* cameras = picam2.global_camera_info(); an empty list returns
ListCameras ==
    /\ pc = "global_camera_info"
    /\ \/ /\ log' = Append(log, Call("global_camera_info", "ok"))
          /\ pc' = "configure"
       \/ /\ log' = Append(log, Call("global_camera_info", "none"))
          /\ pc' = "exit"
    /\ UNCHANGED <<dirExists, picam2, config, frame, frame_bgr, window, key,
                   frame_count, files, exitStatus, iter>>

\* full-resolution configuration, falling back to the default one
Configure ==
    /\ pc = "configure"
    /\ \/ /\ config' = "full"
          /\ log' = Append(log, Call("configure", "full"))
          /\ pc' = "start"
       \/ /\ config' = "default"
          /\ log' = Append(log, Call("configure", "default"))
          /\ pc' = "start"
       \/ /\ config' = config
          /\ log' = Append(log, Call("configure", "raise"))
          /\ pc' = "except"
    /\ UNCHANGED <<dirExists, picam2, frame, frame_bgr, window, key,
                   frame_count, files, exitStatus, iter>>

\* picam2.start()
Start ==
    /\ pc = "start"
    /\ \/ /\ picam2' = "started"
          /\ log' = Append(log, Call("start", "ok"))
          /\ pc' = "test_frame"
       \/ /\ picam2' = picam2
          /\ log' = Append(log, Call("start", "raise"))
          /\ pc' = "except"
    /\ UNCHANGED <<dirExists, config, frame, frame_bgr, window, key, frame_count,
                   files, exitStatus, iter>>

\* the frame the device delivers under the configuration in force
DeviceFrame == IF config = "full" THEN FullFrame ELSE DefaultFrame

\* test_frame = picam2.capture_array(); None closes the device and returns
TestFrame ==
    /\ pc = "test_frame"
    /\ \/ /\ frame' = DeviceFrame
          /\ frame_count' = 0
          /\ picam2' = picam2
          /\ log' = Append(log, Call("test_frame", "ok"))
          /\ pc' = "capture_array"
       \/ /\ frame' = NoFrame
          /\ frame_count' = frame_count
          /\ picam2' = "closed"
          /\ log' = log \o <<Call("test_frame", "none"), Call("close", "ok")>>
          /\ pc' = "exit"
       \/ /\ frame' = frame
          /\ frame_count' = frame_count
          /\ picam2' = picam2
          /\ log' = Append(log, Call("test_frame", "raise"))
          /\ pc' = "except"
    /\ UNCHANGED <<dirExists, config, frame_bgr, window, key, files,
                   exitStatus, iter>>

\* while True: frame = picam2.capture_array()
Capture ==
    /\ pc = "capture_array"
    /\ iter < MaxIter
    /\ iter' = iter + 1
    /\ \/ /\ frame' = DeviceFrame
          /\ log' = Append(log, Call("capture_array", "ok"))
          /\ pc' = "cvtColor"
       \/ /\ frame' = NoFrame
          /\ log' = Append(log, Call("capture_array", "none"))
          /\ pc' = "cvtColor"
       \/ /\ frame' = frame
          /\ log' = Append(log, Call("capture_array", "raise"))
          /\ pc' = "except"
    /\ UNCHANGED <<dirExists, picam2, config, frame_bgr, window, key,
                   frame_count, files, exitStatus>>

\* frame_bgr = cv2.cvtColor(frame, cv2.COLOR_RGB2BGR); cv2.error on None
Convert ==
    /\ pc = "cvtColor"
    /\ IF frame = NoFrame
       THEN /\ frame_bgr' = frame_bgr
            /\ log' = Append(log, Call("cvtColor", "raise"))
            /\ pc' = "except"
       ELSE /\ frame_bgr' = CvtColor(frame)
            /\ log' = Append(log, Call("cvtColor", "ok"))
            /\ pc' = "imshow"
    /\ UNCHANGED <<dirExists, picam2, config, frame, window, key,
                   frame_count, files, exitStatus, iter>>

\* mutant: the displayed image is scaled down to the display cap
DisplayedDownscaled(f) ==
    LET m == Max(f.w, f.h) IN
    IF m > 1024
    THEN [f EXCEPT !.w = (f.w * 1024) \div m, !.h = (f.h * 1024) \div m]
    ELSE f

\* the image handed to cv2.imshow
Displayed(f) == f

\* cv2.imshow("Raspberry Pi Camera", frame_bgr)
Show ==
    /\ pc = "imshow"
    /\ \/ /\ window' = Displayed(frame_bgr)
          /\ log' = Append(log, Call("imshow", "ok"))
          /\ pc' = "waitKey"
       \/ /\ window' = window
          /\ log' = Append(log, Call("imshow", "raise"))
          /\ pc' = "except"
    /\ UNCHANGED <<dirExists, picam2, config, frame, frame_bgr, key,
                   frame_count, files, exitStatus, iter>>

\* mutant: the quit key does not break the loop
AfterKeyNoBreak(k) == IF k = KeySave THEN "imwrite" ELSE "capture_array"

\* where the loop goes after the key poll
AfterKey(k) == IF k = KeyQuit THEN "close"
               ELSE IF k = KeySave THEN "imwrite"
               ELSE "capture_array"

\* key = cv2.waitKey(1) & 0xFF and the dispatch on it
PollKey ==
    /\ pc = "waitKey"
    /\ \E k \in Keys :
          /\ key' = k
          /\ log' = Append(log, Event("waitKey", "ok", k, <<>>))
          /\ pc' = AfterKey(k)
    /\ UNCHANGED <<dirExists, picam2, config, frame, frame_bgr, window,
                   frame_count, files, exitStatus, iter>>

\* mutant: the counter is never incremented
NextCountStuck(n, success) == n

\* mutant: the counter is incremented whatever cv2.imwrite returned
NextCountAlways(n, success) == n + 1

\* the counter after cv2.imwrite returned `success`
NextCount(n, success) == IF success THEN n + 1 ELSE n

\* mutant: a failed write is fatal
AfterSaveFatal(success) == IF success THEN "capture_array" ELSE "except"

\* where the loop goes after cv2.imwrite returned `success`: both branches
\* of `if success` fall through to the top of the loop
AfterSave(success) == "capture_array"

\* the image handed to cv2.imwrite
Persisted(f) == f

\* spacebar: build the file name, cv2.imwrite, count a successful write
Save ==
    /\ pc = "imwrite"
    /\ \E t \in Seconds, success \in BOOLEAN :
          LET filename == Filename(t, frame_count) IN
          /\ files' = IF success THEN WriteFile(files, filename, Persisted(frame_bgr))
                      ELSE files
          /\ frame_count' = NextCount(frame_count, success)
          /\ log' = Append(log, Event("imwrite", IF success THEN "ok" ELSE "false",
                                      frame_count, filename))
          /\ pc' = AfterSave(success)
    /\ UNCHANGED <<dirExists, picam2, config, frame, frame_bgr, window, key,
                   exitStatus, iter>>

\* after the break: picam2.close()
Close ==
    /\ pc = "close"
    /\ picam2' = "closed"
    /\ log' = Append(log, Call("close", "ok"))
    /\ pc' = "destroyAllWindows"
    /\ UNCHANGED <<dirExists, config, frame, frame_bgr, window, key,
                   frame_count, files, exitStatus, iter>>

\* cv2.destroyAllWindows(); print(f"Program ended. {frame_count} frames captured.")
Destroy ==
    /\ pc = "destroyAllWindows"
    /\ window' = NoFrame
    /\ log' = log \o <<Call("destroyAllWindows", "ok"),
                       Event("summary", "ok", frame_count, <<>>)>>
    /\ pc' = "exit"
    /\ UNCHANGED <<dirExists, picam2, config, frame, frame_bgr, key,
                   frame_count, files, exitStatus, iter>>

\* except Exception in main(): print "Camera error", cv2.destroyAllWindows()
Except ==
    /\ pc = "except"
    /\ window' = NoFrame
    /\ log' = log \o <<Call("camera_error", "ok"), Call("destroyAllWindows", "ok")>>
    /\ pc' = "exit"
    /\ UNCHANGED <<dirExists, picam2, config, frame, frame_bgr, key,
                   frame_count, files, exitStatus, iter>>

\* except Exception in __main__: print "Error", cv2.destroyAllWindows()
TopExcept ==
    /\ pc = "top_except"
    /\ window' = NoFrame
    /\ log' = log \o <<Call("error", "ok"), Call("destroyAllWindows", "ok")>>
    /\ pc' = "exit"
    /\ UNCHANGED <<dirExists, picam2, config, frame, frame_bgr, key,
                   frame_count, files, exitStatus, iter>>

\* mutant: a run that reported an error exits with status 1
ExitCodeOnError(l) ==
    IF \E i \in DOMAIN l : l[i].res \in {"raise", "none"} THEN 1 ELSE 0

\* the status the interpreter exits with once the script has run to its end
ExitCode(l) == 0

\* main() has returned or its exception was handled: the script ends
Exit ==
    /\ pc = "exit"
    /\ exitStatus' = ExitCode(log)
    /\ pc' = "done"
    /\ UNCHANGED <<dirExists, picam2, config, frame, frame_bgr, window, key,
                   frame_count, files, log, iter>>

Next ==
    \/ Makedirs
    \/ ImportPicamera2
    \/ CreateCamera
    \/ ListCameras
    \/ Configure
    \/ Start
    \/ TestFrame
    \/ Capture
    \/ Convert
    \/ Show
    \/ PollKey
    \/ Save
    \/ Close
    \/ Destroy
    \/ Except
    \/ TopExcept
    \/ Exit

Spec == Init /\ [][Next]_vars

\* ------------------------------------------------- reading the call log
Ix == DOMAIN log
Has(op) == \E i \in Ix : log[i].op = op
HasRes(op, res) == \E i \in Ix : log[i].op = op /\ log[i].res = res
Ops(l) == [i \in DOMAIN l |-> l[i].op]
After(i) == SubSeq(log, i + 1, Len(log))
IsPrefix(a, b) == Len(a) <= Len(b) /\ SubSeq(b, 1, Len(a)) = a

QuitRead == \E i \in Ix : log[i].op = "waitKey" /\ log[i].n = KeyQuit
Returned == pc \in {"exit", "done"}
OpenFailed == \/ HasRes("import", "raise")
              \/ HasRes("Picamera2", "raise")
              \/ HasRes("global_camera_info", "none")
\* no external call failed: working device, working display, writable directory
CleanRun == \A i \in Ix : log[i].res \notin {"raise", "none", "false"}

IsWrite(e) == e.op = "imwrite" /\ e.res = "ok"
Writes == SelectSeq(log, IsWrite)
SavePresses == {i \in Ix : log[i].op = "waitKey" /\ log[i].n = KeySave}

DigitVal(c) == CHOOSE d \in 0..9 : DigitChar(d) = c
RECURSIVE ParseInt(_)
ParseInt(ds) == IF Len(ds) = 0 THEN 0
                ELSE 10 * ParseInt(SubSeq(ds, 1, Len(ds) - 1)) + DigitVal(ds[Len(ds)])
\* the counter field of a file name frame_<timestamp>_<counter>.jpg
CounterOf(name) == ParseInt(SubSeq(name, 6, Len(name) - 1))

\* ----------------------------------------------------------------- claims

\* C1: on every path by which main() stops after the camera handle has been
\* created, the device is released (close) and the display is destroyed,
\* the release coming first.
C1_ReleaseThenDestroyOnEveryExit ==
    (Returned /\ picam2 # "unbound") =>
        \E i \in Ix, j \in Ix : /\ i < j
                                /\ log[i].op = "close"
                                /\ log[j].op = "destroyAllWindows"

\* C2: once the quit key has been read, the only calls that follow are
\* picam2.close, then cv2.destroyAllWindows, then the summary; all of them have
\* been made when main() has returned; no acquisition, display or save follows.
C2_QuitReleasesThenDestroys ==
    \A i \in Ix :
        (log[i].op = "waitKey" /\ log[i].n = KeyQuit) =>
            /\ IsPrefix(Ops(After(i)), <<"close", "destroyAllWindows", "summary">>)
            /\ pc \in {"close", "destroyAllWindows", "exit", "done"}
            /\ Returned => (Len(After(i)) = 3 /\ picam2 = "closed" /\ window = NoFrame)

C2_Witness ==
    /\ pc = "done"
    /\ QuitRead
    /\ HasRes("imwrite", "false")
    /\ frame_count = 0

\* C3: in a run where no call failed and the save key was pressed N times
\* before the quit key, N distinct files exist, the i-th written file carries
\* counter i-1 in its name, and the summary reports N.
C3_NPressesNFiles ==
    (Returned /\ QuitRead /\ CleanRun) =>
        LET N == Cardinality(SavePresses) IN
        /\ Len(Writes) = N
        /\ Cardinality(DOMAIN files) = N
        /\ \A i \in 1..N : /\ CounterOf(Writes[i].name) = i - 1
                           /\ Writes[i].name \in DOMAIN files
        /\ \E j \in Ix : log[j].op = "summary" /\ log[j].n = N

C3_Witness ==
    /\ pc = "done"
    /\ QuitRead
    /\ CleanRun
    /\ Cardinality(SavePresses) = MaxIter - 1
    /\ \A i \in 1..Len(Writes) : Writes[i].name[4] = "0"

\* C4: in every state the counter equals the number of successful saves so
\* far (it is unbound until the loop is entered), and the successful saves
\* wrote pairwise different file names, so no file was written twice.
C4_CounterCountsSuccessfulSaves ==
    /\ frame_count = -1 => ~Has("imwrite")
    /\ frame_count # -1 => frame_count = Len(Writes)
    /\ \A i \in 1..Len(Writes), j \in 1..Len(Writes) :
           i # j => Writes[i].name # Writes[j].name
    /\ Cardinality(DOMAIN files) = Len(Writes)

C4_Witness ==
    /\ Len(Writes) >= 2
    /\ HasRes("imwrite", "false")
    /\ \E i \in Ix : log[i].op = "waitKey" /\ log[i].n \notin {KeyQuit, KeySave, KeyNone}
    /\ Writes[1].name[4] = Writes[2].name[4]

\* C5: a save whose write returned False leaves the counter unchanged and the
\* loop running: the next call is the next iteration's capture_array, a frame
\* acquired then is displayed and the key polled, and the next save uses the
\* counter value of the failed one.
C5_FailedSaveIsNotFatal ==
    \A i \in Ix :
        (log[i].op = "imwrite" /\ log[i].res = "false") =>
            /\ i = Len(log) => (pc = "capture_array" /\ frame_count = log[i].n)
            /\ i < Len(log) => log[i + 1].op = "capture_array"
            /\ (i + 4 <= Len(log) /\ log[i + 1].res = "ok" /\ log[i + 3].res = "ok") =>
                   Ops(SubSeq(log, i + 1, i + 4)) =
                       <<"capture_array", "cvtColor", "imshow", "waitKey">>
            /\ \A j \in Ix :
                   (j > i /\ log[j].op = "imwrite"
                          /\ \A m \in (i + 1)..(j - 1) : log[m].op # "imwrite")
                       => log[j].n = log[i].n

C5_Witness ==
    \E i \in Ix, j \in Ix :
        /\ i < j
        /\ log[i].op = "imwrite" /\ log[i].res = "false"
        /\ log[j].op = "imwrite" /\ log[j].res = "ok"
        /\ log[j].n = log[i].n
        /\ log[j].n = 1

\* C6: a failed frame read inside the loop (capture_array yielding no frame)
\* does not end the loop and leaves the counter alone: the call that follows
\* it is the next capture_array.
C6_FailedReadKeepsLoop ==
    \A i \in Ix :
        (log[i].op = "capture_array" /\ log[i].res = "none") =>
            /\ pc \notin {"except", "exit", "done"}
            /\ i < Len(log) => log[i + 1].op = "capture_array"
            /\ frame_count = Len(Writes)

\* C7 as stated: after a failed open nothing is shown, no key is polled, no
\* file is created, and the run ends with a summary reporting zero frames.
C7_OpenFailureSummaryZero ==
    (OpenFailed /\ pc = "done") =>
        /\ ~Has("imshow") /\ ~Has("waitKey")
        /\ files = <<>>
        /\ \E j \in Ix : log[j].op = "summary" /\ log[j].n = 0

\* C7 amended: after a failed open the run never enters the loop: nothing is
\* acquired or shown, no key is polled, no file is created, the counter is
\* never bound and no summary is printed.
C7_OpenFailureNeverStreams ==
    OpenFailed =>
        /\ pc \in {"except", "exit", "done"}
        /\ ~Has("test_frame") /\ ~Has("capture_array")
        /\ ~Has("imshow") /\ ~Has("waitKey") /\ ~Has("imwrite")
        /\ window = NoFrame
        /\ files = <<>>
        /\ frame_count = -1
        /\ ~Has("summary")

C7_Witness ==
    /\ pc = "done"
    /\ HasRes("global_camera_info", "none")
    /\ picam2 = "open"

\* C8 as stated: a frame whose largest dimension exceeds the display cap is
\* shown downscaled so that its largest dimension equals the cap.
C8_DisplayDownscaledToCap ==
    (pc = "waitKey" /\ Max(frame.w, frame.h) > 1024) =>
        Max(window.w, window.h) = 1024

\* C8 amended: the frame shown in an iteration has the dimensions of the frame
\* acquired in that iteration (no downscaling), and a file saved in that
\* iteration has those dimensions too.
C8_DisplayedAndSavedAtOriginalSize ==
    /\ pc \in {"waitKey", "imwrite"} =>
           (window.w = frame.w /\ window.h = frame.h /\ window.order = "BGR")
    /\ (pc = "capture_array" /\ Len(log) > 0 /\ IsWrite(log[Len(log)])) =>
           LET img == files[log[Len(log)].name] IN
           img.w = frame.w /\ img.h = frame.h /\ img.order = "BGR"

C8_Witness ==
    /\ pc = "capture_array"
    /\ Len(log) > 0
    /\ IsWrite(log[Len(log)])
    /\ frame.w = 1456
    /\ window.w = 1456
    /\ files[log[Len(log)].name].w = 1456

\* C9: once the device open has been attempted, and whenever a save can be
\* attempted, the output directory exists, also when it did not exist at
\* start and also when the open fails.
C9_DirectoryExistsBeforeOpen ==
    (Has("import") \/ Has("Picamera2") \/ picam2 # "unbound" \/ pc = "imwrite")
        => dirExists

C9_Witness ==
    /\ pc = "imwrite"
    /\ \E i \in Ix : log[i].op = "makedirs" /\ log[i].n = 0
    /\ dirExists

\* C10 as stated: exit status 0 after a clean quit, non-zero after a failed
\* device open.
C10_NonZeroOnOpenFailure ==
    pc = "done" =>
        /\ (QuitRead => exitStatus = 0)
        /\ (OpenFailed => exitStatus # 0)

\* C10 amended: the exit status is 0 after a clean quit and also 0 after a
\* failed device open.
C10_ExitStatusAlwaysZero ==
    (pc = "done" /\ (QuitRead \/ OpenFailed)) => exitStatus = 0

C10_Witness ==
    /\ pc = "done"
    /\ HasRes("Picamera2", "raise")
    /\ exitStatus = 0

====
